---------------------------- MODULE Spec2Model ----------------------------
(***************************************************************************)
(* Model of telebot.py: a Telegram bot that keeps notes (title, message)   *)
(* in one SQLite table `messages` whose title column is                    *)
(* UNIQUE COLLATE NOCASE, with handlers save_message, get_message,         *)
(* delete_message and inline_query.                                        *)
(*                                                                         *)
(* A text is a sequence of one-character strings.  The table is the        *)
(* sequence of its rows in rowid order; the id column is read by no        *)
(* handler and is left out.                                                *)
(***************************************************************************)
EXTENDS Integers, Sequences, FiniteSets, TLC

VARIABLES
    store,      \* the rows of table `messages`, in rowid order
    last,       \* sequential processing: the update handled last, the table
                \* before it, its reply, the SQL it executed
    tasks,      \* concurrent processing: one handler task per slot
    racing      \* concurrent processing: pairs of save tasks that were in
                \* flight together for a title absent from the table

vars == <<store, last, tasks, racing>>

---------------------------------------------------------------------------
(* Bounds of the model *)

\* The table holds at most MaxRows rows.
MaxRows == 2

\* Handler tasks that may be in flight together under concurrent processing.
MaxTasks == 2

Tasks == 1..MaxTasks

---------------------------------------------------------------------------
(* Text primitives: Python str methods and SQLite comparison *)

\* Characters str.strip() and str.split() treat as whitespace.
Whitespace == {" ", "\n"}

RECURSIVE lstrip(_)
lstrip(s) ==
    IF s # <<>> /\ Head(s) \in Whitespace THEN lstrip(Tail(s)) ELSE s

RECURSIVE rstrip(_)
rstrip(s) ==
    IF s # <<>> /\ s[Len(s)] \in Whitespace
    THEN rstrip(SubSeq(s, 1, Len(s) - 1))
    ELSE s

\* rstrip_only: a strip that forgets the leading whitespace.
rstrip_only(s) == rstrip(s)

\* str.strip(): leading and trailing whitespace removed.
strip(s) == rstrip(lstrip(s))

\* Index of the first occurrence of character c in s, 0 when there is none.
find(s, c) ==
    IF \E i \in 1..Len(s) : s[i] = c
    THEN CHOOSE i \in 1..Len(s) : s[i] = c /\ \A j \in 1..(i - 1) : s[j] # c
    ELSE 0

\* text.split(':', 1) for a text that holds a ':'.
split_colon(text) ==
    LET i == find(text, ":")
    IN  [title |-> SubSeq(text, 1, i - 1),
         message |-> SubSeq(text, i + 1, Len(text))]

\* str.split(): the maximal runs of non-whitespace characters, in order.
RECURSIVE split_words(_)
split_words(s) ==
    LET t == lstrip(s)
    IN  IF t = <<>> THEN <<>>
        ELSE LET stops == {i \in 1..Len(t) : t[i] \in Whitespace}
                 n == IF stops = {} THEN Len(t)
                      ELSE (CHOOSE i \in stops : \A j \in stops : i <= j) - 1
             IN  <<SubSeq(t, 1, n)>> \o split_words(SubSeq(t, n + 1, Len(t)))

\* ' '.join(words)
RECURSIVE join(_)
join(words) ==
    IF words = <<>> THEN <<>>
    ELSE IF Len(words) = 1 THEN words[1]
    ELSE words[1] \o <<" ">> \o join(Tail(words))

\* SQLite folds the 26 ASCII upper case letters only (NOCASE, LIKE).
sqlite_lower(c) ==
    CASE c = "A" -> "a"
      [] c = "B" -> "b"
      [] OTHER -> c

\* binary_eq: comparison under the default BINARY collation.
binary_eq(s, t) == s = t

\* Equality of two texts under COLLATE NOCASE.
nocase_eq(s, t) ==
    /\ Len(s) = Len(t)
    /\ \A i \in 1..Len(s) : sqlite_lower(s[i]) = sqlite_lower(t[i])

\* SQLite's LIKE without ESCAPE: '%' matches any run of characters, '_'
\* any one character, every other character itself up to ASCII case.
RECURSIVE like(_, _)
like(s, pat) ==
    IF pat = <<>> THEN s = <<>>
    ELSE IF Head(pat) = "%"
         THEN like(s, Tail(pat)) \/ (s # <<>> /\ like(Tail(s), pat))
    ELSE IF s = <<>> THEN FALSE
    ELSE IF Head(pat) = "_" THEN like(Tail(s), Tail(pat))
    ELSE /\ sqlite_lower(Head(s)) = sqlite_lower(Head(pat))
         /\ like(Tail(s), Tail(pat))

---------------------------------------------------------------------------
(* SQL statements on the table *)

\* Indices of the rows whose title equals `title` under the column collation.
matching(st, title) == {i \in 1..Len(st) : nocase_eq(st[i].title, title)}

\* The rows of st at the indices not in `gone`, order kept.
RECURSIVE without(_, _)
without(st, gone) ==
    IF st = <<>> THEN <<>>
    ELSE LET n == Len(st)
             front == without(SubSeq(st, 1, n - 1), gone)
         IN  IF n \in gone THEN front ELSE Append(front, st[n])

\* insert_or_replace: an INSERT OR REPLACE, which overwrites the old row.
insert_or_replace(st, title, message) ==
    [ok |-> TRUE,
     rows |-> Append(without(st, matching(st, title)),
                     [title |-> title, message |-> message])]

\* insert_unchecked: an INSERT into a table without the UNIQUE constraint.
insert_unchecked(st, title, message) ==
    [ok |-> TRUE, rows |-> Append(st, [title |-> title, message |-> message])]

\* INSERT INTO messages (title, message) VALUES (?, ?); conn.commit().
\* ok = FALSE is sqlite3.IntegrityError raised by the UNIQUE constraint.
sql_insert(st, title, message) ==
    IF matching(st, title) # {}
    THEN [ok |-> FALSE, rows |-> st]
    ELSE [ok |-> TRUE,
          rows |-> Append(st, [title |-> title, message |-> message])]

\* select_prefix: a lookup that also accepts titles that start with `title`.
select_prefix(st, title) ==
    LET m == {i \in 1..Len(st) :
                 /\ Len(st[i].title) >= Len(title)
                 /\ nocase_eq(SubSeq(st[i].title, 1, Len(title)), title)}
    IN  IF m = {} THEN <<>>
        ELSE <<st[CHOOSE i \in m : \A j \in m : i <= j].message>>

\* SELECT message FROM messages WHERE title = ?; cursor.fetchone().
\* <<>> is None, <<m>> the first matching row.
sql_select(st, title) ==
    LET m == matching(st, title)
    IN  IF m = {} THEN <<>>
        ELSE <<st[CHOOSE i \in m : \A j \in m : i <= j].message>>

\* delete_first_row: a DELETE that ignores its WHERE clause's title.
delete_first_row(st, title) ==
    IF st = <<>> THEN [rows |-> st, rowcount |-> 0]
    ELSE [rows |-> Tail(st), rowcount |-> 1]

\* DELETE FROM messages WHERE title = ?; conn.commit(); cursor.rowcount.
sql_delete(st, title) ==
    LET m == matching(st, title)
    IN  [rows |-> without(st, m), rowcount |-> Cardinality(m)]

\* SELECT title, message FROM messages WHERE title LIKE ?; fetchall().
sql_like(st, pat) == without(st, {i \in 1..Len(st) : ~like(st[i].title, pat)})

---------------------------------------------------------------------------
(* The handlers: the table after, the reply sent, the SQL executed *)

\* What a handler did: the table after it, the reply it sent, and the SQL
\* statements it executed (a DELETE with the cursor.rowcount read after it).
Result(rows, reply, stmts) ==
    [rows |-> rows, reply |-> reply, stmts |-> stmts]

\* save_message on update.message.text = text
save_message(st, text) ==
    IF find(text, ":") # 0
    THEN LET parts == split_colon(text)
             title == strip(parts.title)
             message == strip(parts.message)
             ins == sql_insert(st, title, message)
         IN  IF ins.ok
             THEN Result(ins.rows, [kind |-> "saved", title |-> title],
                         <<[sql |-> "INSERT"]>>)
             ELSE Result(ins.rows, [kind |-> "exists", title |-> title],
                         <<[sql |-> "INSERT"]>>)
    ELSE Result(st, [kind |-> "usage_save"], <<>>)

\* get_message on context.args = args
get_message(st, args) ==
    IF Len(args) > 0
    THEN LET title == strip(join(args))
             result == sql_select(st, title)
         IN  IF result # <<>>
             THEN Result(st, [kind |-> "message", title |-> title,
                              message |-> result[1]], <<[sql |-> "SELECT"]>>)
             ELSE Result(st, [kind |-> "not_found", title |-> title],
                         <<[sql |-> "SELECT"]>>)
    ELSE Result(st, [kind |-> "usage_get"], <<>>)

\* delete_message on context.args = args
delete_message(st, args) ==
    IF Len(args) > 0
    THEN LET title == strip(join(args))
             del == sql_delete(st, title)
         IN  IF del.rowcount > 0
             THEN Result(del.rows, [kind |-> "deleted", title |-> title],
                         <<[sql |-> "DELETE", rowcount |-> del.rowcount]>>)
             ELSE Result(del.rows, [kind |-> "not_found", title |-> title],
                         <<[sql |-> "DELETE", rowcount |-> del.rowcount]>>)
    ELSE Result(st, [kind |-> "usage_delete"], <<>>)

\* inline_query_unguarded: the search without its `if query:` test.
inline_query_unguarded(st, q) ==
    LET query == strip(q)
    IN  Result(st, [kind |-> "results",
                    results |-> sql_like(st, <<"%">> \o query \o <<"%">>)],
               <<[sql |-> "LIKE"]>>)

\* inline_query on update.inline_query.query = q.  Each result is the row
\* it renders (title, and the content built from title and message).
inline_query(st, q) ==
    LET query == strip(q)
    IN  IF query # <<>>
        THEN Result(st, [kind |-> "results",
                         results |-> sql_like(st, <<"%">> \o query \o <<"%">>)],
                    <<[sql |-> "LIKE"]>>)
        ELSE Result(st, [kind |-> "results", results |-> <<>>], <<>>)

\* start and help_command: a static reply, the table untouched.
start(st) == Result(st, [kind |-> "welcome"], <<>>)

help_command(st) == Result(st, [kind |-> "help"], <<>>)

---------------------------------------------------------------------------
(* Updates the transport delivers *)

TitleCores ==
    { <<>>, <<"a">>, <<"A">>, <<"a", " ", "b">>, <<"a", " ", " ", "b">> }

Bodies == { <<"x">>, <<"y", ":", "y">> }

\* Whitespace put before and after a title or a body.
NoPad == [l |-> <<>>, r |-> <<>>]

Pads == { NoPad, [l |-> <<" ">>, r |-> <<"\n", " ">>] }

Padded(s, p) == p.l \o s \o p.r

Compose(t, b, pt, pb) == Padded(t, pt) \o <<":">> \o Padded(b, pb)

\* Free-text messages (filters.TEXT & ~filters.COMMAND).
SaveTexts ==
    { Compose(t, b, p, p) : t \in TitleCores, b \in Bodies, p \in Pads }
    \cup { <<"a">>, <<"a", " ", "b">> }

\* The text after the command word of /get and /delete.
ArgTexts ==
    { <<>>, <<"a">>, <<" ", "A", " ">>, <<"b">>, <<"a", " ", "b">>,
      <<"a", " ", " ", "b">> }

\* Inline query texts.
Queries == { <<>>, <<" ">>, <<"a">>, <<" ", "B", " ">>, <<"_">>, <<"%">> }

Update(kind, text) == [kind |-> kind, text |-> text]

\* Handler dispatch as main() registers it.  context.args of a command is
\* the whitespace-split text after the command word.
handle(st, u) ==
    CASE u.kind = "save" -> save_message(st, u.text)
      [] u.kind = "get" -> get_message(st, split_words(u.text))
      [] u.kind = "delete" -> delete_message(st, split_words(u.text))
      [] u.kind = "inline" -> inline_query(st, u.text)
      [] u.kind = "start" -> start(st)
      [] u.kind = "help" -> help_command(st)

NoUpdate == [kind |-> "none", text |-> <<>>]

NoReply == [kind |-> "none"]

Handled(u, pre, r) ==
    [upd |-> u, pre |-> pre, reply |-> r.reply, stmts |-> r.stmts]

Init ==
    /\ store = <<>>
    /\ last = [upd |-> NoUpdate, pre |-> <<>>, reply |-> NoReply,
               stmts |-> <<>>]
    /\ tasks = [p \in Tasks |-> [pc |-> "idle", upd |-> NoUpdate,
                                 reply |-> NoReply]]
    /\ racing = {}

---------------------------------------------------------------------------
(* Sequential processing, the Application's default: an update is handled *)
(* to its end, reply included, before the next one is taken.              *)

SaveMessage ==
    \E text \in SaveTexts :
        LET u == Update("save", text)
            r == handle(store, u)
        IN  /\ Len(r.rows) <= MaxRows
            /\ store' = r.rows
            /\ last' = Handled(u, store, r)
            /\ UNCHANGED <<tasks, racing>>

GetMessage ==
    \E text \in ArgTexts :
        LET u == Update("get", text)
            r == handle(store, u)
        IN  /\ store' = r.rows
            /\ last' = Handled(u, store, r)
            /\ UNCHANGED <<tasks, racing>>

DeleteMessage ==
    \E text \in ArgTexts :
        LET u == Update("delete", text)
            r == handle(store, u)
        IN  /\ store' = r.rows
            /\ last' = Handled(u, store, r)
            /\ UNCHANGED <<tasks, racing>>

InlineQuery ==
    \E q \in Queries :
        LET u == Update("inline", q)
            r == handle(store, u)
        IN  /\ store' = r.rows
            /\ last' = Handled(u, store, r)
            /\ UNCHANGED <<tasks, racing>>

Start ==
    LET u == Update("start", <<>>)
        r == handle(store, u)
    IN  /\ store' = r.rows
        /\ last' = Handled(u, store, r)
        /\ UNCHANGED <<tasks, racing>>

HelpCommand ==
    LET u == Update("help", <<>>)
        r == handle(store, u)
    IN  /\ store' = r.rows
        /\ last' = Handled(u, store, r)
        /\ UNCHANGED <<tasks, racing>>

Next ==
    \/ SaveMessage
    \/ GetMessage
    \/ DeleteMessage
    \/ InlineQuery
    \/ Start
    \/ HelpCommand

Spec == Init /\ [][Next]_vars

---------------------------------------------------------------------------
(* Notions the properties are stated in: trimming, case folding, the parts *)
(* of a free-text message, infix containment.                              *)

FoldChar(c) == IF c = "A" THEN "a" ELSE IF c = "B" THEN "b" ELSE c

FoldText(s) == [i \in 1..Len(s) |-> FoldChar(s[i])]

IsBlank(c) == c = " " \/ c = "\n"

Trim(s) ==
    LET solid == {i \in 1..Len(s) : ~IsBlank(s[i])}
    IN  IF solid = {} THEN <<>>
        ELSE SubSeq(s, CHOOSE i \in solid : \A j \in solid : i <= j,
                       CHOOSE i \in solid : \A j \in solid : j <= i)

HasSeparator(text) == \E i \in 1..Len(text) : text[i] = ":"

FirstSeparator(text) ==
    CHOOSE i \in 1..Len(text) :
        text[i] = ":" /\ \A j \in 1..Len(text) : text[j] = ":" => i <= j

TitleOf(text) == Trim(SubSeq(text, 1, FirstSeparator(text) - 1))

BodyOf(text) == Trim(SubSeq(text, FirstSeparator(text) + 1, Len(text)))

SameTitle(s, t) == FoldText(s) = FoldText(t)

\* q occurs in title as a contiguous run, up to case.
ContainsFold(title, q) ==
    \E k \in 0..(Len(title) - Len(q)) :
        \A i \in 1..Len(q) : FoldChar(title[k + i]) = FoldChar(q[i])

\* Indices of the rows of st whose title is t up to case.
Holding(st, t) == {i \in 1..Len(st) : SameTitle(st[i].title, t)}

RowSet(st) == {st[i] : i \in 1..Len(st)}

\* s is non-empty, and its only blanks are single spaces between words.
SingleSpaced(s) ==
    /\ s # <<>>
    /\ ~IsBlank(s[1])
    /\ ~IsBlank(s[Len(s)])
    /\ \A i \in 1..(Len(s) - 1) :
          IsBlank(s[i]) => (s[i] = " " /\ ~IsBlank(s[i + 1]))

---------------------------------------------------------------------------
(* Concurrent processing: every update gets a task of its own.  A handler  *)
(* runs without suspension up to its one await, the reply_text or answer   *)
(* call that sends the reply, so its SQL is one step; tasks interleave     *)
(* between dispatch, that step and the handler's return.                   *)

ConcSaveTexts ==
    { <<"a", ":", "x">>,
      <<" ", "A", " ", ":", "y", ":", "y">>,
      <<"a", " ", " ", "b", ":", "x">> }

ConcArgTexts == { <<"a">> }

\* Pairs {p, q} of other pending saves of the same title that task p joins
\* when it is dispatched with `u` while the table holds no such title.
JoinedRaces(p, u) ==
    IF u.kind = "save" /\ HasSeparator(u.text)
       /\ Holding(store, TitleOf(u.text)) = {}
    THEN { {p, q} : q \in { t \in Tasks \ {p} :
                              /\ tasks[t].pc = "pending"
                              /\ tasks[t].upd.kind = "save"
                              /\ HasSeparator(tasks[t].upd.text)
                              /\ SameTitle(TitleOf(tasks[t].upd.text),
                                           TitleOf(u.text)) } }
    ELSE {}

Pending(u) == [pc |-> "pending", upd |-> u, reply |-> NoReply]

\* A free-text message arrives and its save_message task is created.
DispatchSave(p) ==
    \E text \in ConcSaveTexts :
        /\ tasks[p].pc = "idle"
        /\ tasks' = [tasks EXCEPT ![p] = Pending(Update("save", text))]
        /\ racing' = {r \in racing : p \notin r}
                        \cup JoinedRaces(p, Update("save", text))
        /\ UNCHANGED <<store, last>>

\* A /delete command arrives and its delete_message task is created.
DispatchDelete(p) ==
    \E text \in ConcArgTexts :
        /\ tasks[p].pc = "idle"
        /\ tasks' = [tasks EXCEPT ![p] = Pending(Update("delete", text))]
        /\ racing' = {r \in racing : p \notin r}
        /\ UNCHANGED <<store, last>>

\* The handler of task p runs from its start to its await.
Run(p) ==
    /\ tasks[p].pc = "pending"
    /\ LET r == handle(store, tasks[p].upd)
       IN  /\ Len(r.rows) <= MaxRows
           /\ store' = r.rows
           /\ tasks' = [tasks EXCEPT ![p].pc = "awaiting",
                                     ![p].reply = r.reply]
           /\ racing' = IF r.rows = store THEN racing
                        ELSE {pair \in racing : p \in pair}
    /\ UNCHANGED last

\* The reply is sent and the handler returns; the slot keeps what it did
\* until it is dispatched again.
Return(p) ==
    /\ tasks[p].pc = "awaiting"
    /\ tasks' = [tasks EXCEPT ![p].pc = "idle"]
    /\ UNCHANGED <<store, last, racing>>

NextConc ==
    \E p \in Tasks :
        \/ DispatchSave(p)
        \/ DispatchDelete(p)
        \/ Run(p)
        \/ Return(p)

SpecConc == Init /\ [][NextConc]_vars

---------------------------------------------------------------------------
(* Properties *)

LastIs(kind) == last.upd.kind = kind

\* C1: the table never holds two notes whose titles are equal up to case.
C1_UniqueTitles ==
    \A i, j \in 1..Len(store) :
        i # j => ~SameTitle(store[i].title, store[j].title)

\* A full table, after a save of a differently cased stored title was refused.
C1_Witness ==
    /\ Len(store) = MaxRows
    /\ LastIs("save")
    /\ last.reply.kind = "exists"
    /\ \E i \in 1..Len(store) :
          /\ SameTitle(store[i].title, last.reply.title)
          /\ store[i].title # last.reply.title

\* C2: a save whose title, trimmed, equals a stored title up to case is
\* answered "already exists" and leaves the table as it was: the stored
\* note keeps its title and its body, and no note is added.
C2_DuplicateRejected ==
    (LastIs("save") /\ HasSeparator(last.upd.text)
        /\ Holding(last.pre, TitleOf(last.upd.text)) # {})
    => /\ last.reply = [kind |-> "exists", title |-> TitleOf(last.upd.text)]
       /\ store = last.pre

\* A save of a case variant of a stored title, with another body.
C2_Witness ==
    /\ LastIs("save")
    /\ HasSeparator(last.upd.text)
    /\ \E i \in Holding(last.pre, TitleOf(last.upd.text)) :
          /\ last.pre[i].title # TitleOf(last.upd.text)
          /\ last.pre[i].message # BodyOf(last.upd.text)
    /\ last.reply.kind = "exists"

Done(p) == tasks[p].pc # "pending"

\* C3: of two saves of one title (up to trimming and case) that were in
\* flight together while the table held no such title, once both have run
\* exactly one was answered "saved" and the other "already exists", and the
\* table holds exactly one note of that title, with the body of the saved one.
C3_OneWinner ==
    \A p, q \in Tasks :
        ({p, q} \in racing /\ p # q /\ Done(p) /\ Done(q))
        => LET kinds == {tasks[p].reply.kind, tasks[q].reply.kind}
               held == Holding(store, TitleOf(tasks[p].upd.text))
           IN  /\ kinds = {"saved", "exists"}
               /\ Cardinality(held) = 1
               /\ \A w \in {p, q} :
                     tasks[w].reply.kind = "saved"
                     => \A i \in held :
                           /\ store[i].message = BodyOf(tasks[w].upd.text)
                           /\ store[i].title = TitleOf(tasks[w].upd.text)

\* Two racing saves of differently cased titles have both run.
C3_Witness ==
    \E p, q \in Tasks :
        /\ p # q
        /\ {p, q} \in racing
        /\ Done(p)
        /\ Done(q)
        /\ tasks[p].upd.text # tasks[q].upd.text
        /\ tasks[p].reply.kind = "exists"

\* C4: a search with a non-empty query returns exactly the notes whose
\* title contains the query as a contiguous run, up to case.  Stated for
\* tables whose titles are all non-empty, so that a failure does not rest
\* on a note with an empty title (C9).
C4_SearchIsInfix ==
    (LastIs("inline") /\ Trim(last.upd.text) # <<>>
        /\ \A i \in 1..Len(last.pre) : last.pre[i].title # <<>>)
    => RowSet(last.reply.results)
         = {r \in RowSet(last.pre) : ContainsFold(r.title, Trim(last.upd.text))}

\* C5: a lookup of title T is answered with the body, as stored, of the note
\* whose title is T up to case, is answered "not found" exactly when there
\* is no such note, and leaves the table as it was.  T is the title the
\* command's words give, which for single-spaced words is the trimmed
\* argument text.
C5_GetExact ==
    LastIs("get")
    => /\ Trim(last.upd.text) # <<>>
          => last.reply.kind \in {"message", "not_found"}
       /\ SingleSpaced(Trim(last.upd.text))
          => last.reply.title = Trim(last.upd.text)
       /\ last.reply.kind \in {"message", "not_found"}
          => LET held == Holding(last.pre, Trim(last.reply.title))
             IN  /\ held # {} => /\ last.reply.kind = "message"
                                 /\ \A i \in held :
                                       last.reply.message = last.pre[i].message
                 /\ held = {} <=> last.reply.kind = "not_found"
       /\ store = last.pre

\* A lookup in another casing finds its note while a longer title starting
\* with the same characters is stored too.
C5_Witness ==
    /\ LastIs("get")
    /\ last.reply.kind = "message"
    /\ \E i, j \in 1..Len(last.pre) :
          /\ SameTitle(last.pre[i].title, last.reply.title)
          /\ last.pre[i].title # last.reply.title
          /\ Len(last.pre[j].title) > Len(last.reply.title)
          /\ SameTitle(SubSeq(last.pre[j].title, 1, Len(last.reply.title)),
                       last.reply.title)

\* The rows of st whose title is not t up to case, order kept.
Except(st, t) == SelectSeq(st, LAMBDA r : ~SameTitle(r.title, t))

\* C6: a delete of title T removes the one note whose title is T up to case
\* and nothing else (count 1, answered "deleted", a lookup or a second delete
\* of T right after finds nothing and changes nothing); with no such note it
\* is answered "not found" with count 0 and leaves the table as it was.
C6_DeleteExact ==
    LastIs("delete")
    => /\ Trim(last.upd.text) # <<>>
          => last.reply.kind \in {"deleted", "not_found"}
       /\ SingleSpaced(Trim(last.upd.text))
          => last.reply.title = Trim(last.upd.text)
       /\ last.reply.kind \in {"deleted", "not_found"}
          => LET t == last.reply.title
                 held == Holding(last.pre, Trim(t))
                 again == handle(store, Update("delete", t))
             IN  /\ held # {}
                    => /\ Cardinality(held) = 1
                       /\ last.reply.kind = "deleted"
                       /\ last.stmts = <<[sql |-> "DELETE", rowcount |-> 1]>>
                       /\ store = Except(last.pre, t)
                       /\ Len(store) = Len(last.pre) - 1
                       /\ handle(store, Update("get", t)).reply.kind
                             = "not_found"
                       /\ again.reply.kind = "not_found"
                       /\ again.rows = store
                 /\ held = {}
                    => /\ last.reply.kind = "not_found"
                       /\ last.stmts = <<[sql |-> "DELETE", rowcount |-> 0]>>
                       /\ store = last.pre

\* A delete in another casing removed the second of two notes.
C6_Witness ==
    /\ LastIs("delete")
    /\ last.reply.kind = "deleted"
    /\ Len(last.pre) = 2
    /\ SameTitle(last.pre[2].title, last.reply.title)
    /\ last.pre[2].title # last.reply.title
    /\ store = <<last.pre[1]>>

\* C7: a search with an empty query answers an empty result list, executes
\* no SQL and leaves the table as it was.
C7_EmptyQuery ==
    (LastIs("inline") /\ Trim(last.upd.text) = <<>>)
    => /\ last.reply = [kind |-> "results", results |-> <<>>]
       /\ last.stmts = <<>>
       /\ store = last.pre

\* An empty query was answered while the table held notes.
C7_Witness ==
    /\ LastIs("inline")
    /\ last.upd.text = <<>>
    /\ Len(store) > 0
    /\ last.reply.kind = "results"

Bare(s) == s = <<>> \/ (~IsBlank(s[1]) /\ ~IsBlank(s[Len(s)]))

\* C8: a save of a title and a body padded with whitespace has the reply
\* and the resulting table of the save of the unpadded title and body from
\* the same table, and no stored title or body starts or ends with
\* whitespace.
C8_PaddingIgnored ==
    /\ LastIs("save")
       => \A t \in TitleCores, b \in Bodies, pt \in Pads, pb \in Pads :
             Compose(t, b, pt, pb) = last.upd.text
             => LET plain == save_message(last.pre, Compose(t, b, NoPad, NoPad))
                IN  /\ store = plain.rows
                    /\ last.reply = plain.reply
    /\ \A i \in 1..Len(store) : Bare(store[i].title) /\ Bare(store[i].message)

\* A padded save stored its note.
C8_Witness ==
    /\ LastIs("save")
    /\ last.reply.kind = "saved"
    /\ last.upd.text[1] = " "
    /\ Len(store) = Len(last.pre) + 1

\* C9: no stored note has an empty title.
C9_NoEmptyTitle == \A i \in 1..Len(store) : store[i].title # <<>>

\* C10: a get whose argument text is the non-empty title of a stored note
\* is answered with that note's body.
C10_RoundTrip ==
    LastIs("get")
    => \A i \in 1..Len(last.pre) :
          (last.pre[i].title = last.upd.text /\ last.upd.text # <<>>)
          => /\ last.reply.kind = "message"
             /\ last.reply.message = last.pre[i].message

=============================================================================
